---- MODULE Spec2Model ----
(***************************************************************************)
(* RefactorSession (src/src/refactor-session.ts): the mutation queue, the  *)
(* single-pass merge (cleanup), sessions and subsessions, the scope        *)
(* lookups and replaceAsync.                                               *)
(*                                                                         *)
(* Nodes are identities (integers); a node's children are the sequence     *)
(* kids[n]: the array itself for the node types whose only modelled field  *)
(* is an array (Script.statements, Block.statements,                       *)
(* VariableDeclaration.declarators), a one-slot sequence for the others    *)
(* (a removed slot holds Null).                                            *)
(***************************************************************************)
EXTENDS Integers, Sequences, FiniteSets, TLC

Null == 0
NoEntry == -1

\* ------------------------------------------------------------- bounds
MaxOps == 3
MaxCalls == 4
MaxFresh == 3
MaxSubs == 2

\* ---------------------------------------------- the program under edit
\* a; var a; { function f(){} }
\*   1 Script.statements = [2, 4, 8]
\*   2 ExpressionStatement.expression = 3 IdentifierExpression a
\*   4 VariableDeclarationStatement.declaration = 5 VariableDeclaration,
\*     5.declarators = [6 VariableDeclarator], 6.binding = 7 BindingIdentifier a
\*   8 BlockStatement.block = 9 Block, 9.statements = [10 FunctionDeclaration],
\*     10.name = 11 BindingIdentifier f
BaseType ==
  << "Script", "ExpressionStatement", "IdentifierExpression",
     "VariableDeclarationStatement", "VariableDeclaration",
     "VariableDeclarator", "BindingIdentifier", "BlockStatement", "Block",
     "FunctionDeclaration", "BindingIdentifier" >>
BaseKids ==
  << <<2, 4, 8>>, <<3>>, << >>, <<5>>, <<6>>, <<7>>, << >>, <<9>>, <<10>>,
     <<11>>, << >> >>
BaseName == << "", "", "a", "", "", "", "a", "", "", "", "f" >>

NumBase == Len(BaseType)
MaxNode == NumBase + MaxFresh
Nodes == 1..MaxNode
Sessions == 0..MaxSubs
Names == {"a", "f", "x", "z"}

VARIABLES
  type, name, kids, alloc,
  nodes, globalSession, autoCleanup, dirty, rootField,
  lookupTable, scopeMap, scopeOwnerMap, parentMap,
  replacements, deletions, insertions,
  nsess, config, lastOp, ops, async

treeVars == <<type, name, kids, alloc>>
scopeVars == <<lookupTable, scopeMap, scopeOwnerMap>>
queueVars == <<replacements, deletions, insertions>>
sessVars == <<nodes, globalSession, autoCleanup, rootField, nsess, config>>
vars == <<type, name, kids, alloc, nodes, globalSession, autoCleanup, dirty,
          rootField, lookupTable, scopeMap, scopeOwnerMap, parentMap,
          replacements, deletions, insertions, nsess, config, lastOp, ops,
          async>>

\* ------------------------------------------------------------ helpers
SeqToSet(s) == {s[i] : i \in 1..Len(s)}

RECURSIVE SelectSeqBy(_, _)
SelectSeqBy(s, S) ==
  IF s = << >> THEN << >>
  ELSE (IF Head(s) \in S THEN <<Head(s)>> ELSE << >>) \o SelectSeqBy(Tail(s), S)

\* Array.prototype.indexOf, 0-based, -1 when absent
IndexOf(s, x) ==
  IF \E i \in 1..Len(s) : s[i] = x
  THEN (CHOOSE i \in 1..Len(s) : s[i] = x /\ \A j \in 1..(i - 1) : s[j] # x) - 1
  ELSE -1

\* Array.prototype.splice(start, 0, x), start 0-based (negative: from the end)
SpliceIn(s, start, x) ==
  LET st == IF start < 0
            THEN (IF Len(s) + start < 0 THEN 0 ELSE Len(s) + start)
            ELSE (IF start > Len(s) THEN Len(s) ELSE start)
  IN SubSeq(s, 1, st) \o <<x>> \o SubSeq(s, st + 1, Len(s))

\* Array.prototype.splice(key, 1), key 1-based here
SpliceOut(s, key) ==
  IF key \in 1..Len(s)
  THEN SubSeq(s, 1, key - 1) \o SubSeq(s, key + 1, Len(s))
  ELSE s

\* util.isStatement: the type name ends in Statement or Declaration
isStatementType(t) ==
  t \in {"VariableDeclarationStatement", "VariableDeclaration",
         "ExpressionStatement", "BlockStatement", "FunctionDeclaration",
         "DebuggerStatement"}

\* node types whose modelled field is an array (Reference.remove splices)
IsArrayType(t) == t \in {"Script", "Block", "VariableDeclaration"}
\* 'statements' in parent
HasStatements(t) == t \in {"Script", "Block"}

\* the nodes of the subtree of n in document (pre-)order, over children k
RECURSIVE PreOrder(_, _)
RECURSIVE PreOrderSeq(_, _)
PreOrder(n, k) ==
  IF n = Null THEN << >> ELSE <<n>> \o PreOrderSeq(k[n], k)
PreOrderSeq(s, k) ==
  IF s = << >> THEN << >> ELSE PreOrder(Head(s), k) \o PreOrderSeq(Tail(s), k)

Reach(roots, k) == SeqToSet(PreOrderSeq(roots, k))

\* ------------------------------------------- shift-traverser: replace
\* One worklist entry of traverser.replace: the node as it was when its
\* parent was entered, and the Reference (parent, key) it was reached by.
\* parent = Null is the holder of the root ({root: root}).
Elem(n, p, key, leave) == [node |-> n, parent |-> p, key |-> key, leave |-> leave]

NoIns == [after |-> FALSE, statement |-> NoEntry]

\* Reference.replace(target): parent[key] = target
RefReplace(st, e, target) ==
  IF e.parent = Null THEN [st EXCEPT !.root = target]
  ELSE IF e.key \in 1..Len(st.kids[e.parent])
       THEN [st EXCEPT !.kids[e.parent][e.key] = target]
       ELSE st

\* removeElem: Reference.remove() splices position key out of an array and
\* decrements the key of every later sibling still on the worklist; in a
\* non-array slot it stores null.
RemoveElem(st, e, ty) ==
  IF e.parent = Null THEN [st EXCEPT !.root = Null]
  ELSE IF IsArrayType(ty[e.parent])
       THEN [st EXCEPT
               !.kids[e.parent] = SpliceOut(@, e.key),
               !.wl = [i \in 1..Len(@) |->
                         IF ~@[i].leave /\ @[i].parent = e.parent /\ @[i].key >= e.key
                         THEN [@[i] EXCEPT !.key = @ - 1]
                         ELSE @[i]]]
       ELSE [st EXCEPT !.kids[e.parent][e.key] = Null]

\* node.declaration.declarators.length throws a TypeError when the
\* declaration slot is null or holds a node without declarators
DeclaratorsThrow(st, n, ty) ==
  \/ st.kids[n][1] = Null
  \/ ty[st.kids[n][1]] # "VariableDeclaration"

\* (mutant) the placement is ignored: always before the anchor
InsertionIndexBefore(stmts, n, after) == IndexOf(stmts, n)

\* statementIndex = parent.statements.indexOf(node); if (after) statementIndex++
InsertionIndex(stmts, n, after) == IndexOf(stmts, n) + (IF after THEN 1 ELSE 0)

\* the leave visitor of cleanup, and what the traverser does with its result
LeaveNode(st, e, ty, del) ==
  LET n == e.node
      p == IF e.parent = Null THEN n ELSE e.parent
  IN IF ty[n] = "VariableDeclarationStatement" /\ DeclaratorsThrow(st, n, ty)
     THEN [st EXCEPT !.err = TRUE]
     ELSE IF ty[n] = "VariableDeclarationStatement" /\ Len(st.kids[st.kids[n][1]]) = 0
     THEN RemoveElem(st, e, ty)
     ELSE IF st.rep[n] # NoEntry
     THEN RefReplace([st EXCEPT !.rep[n] = NoEntry], e, st.rep[n])
     ELSE LET s1 == IF st.ins[n] # NoIns /\ isStatementType(ty[n]) /\ HasStatements(ty[p])
                    THEN [st EXCEPT
                            !.kids[p] = SpliceIn(@, InsertionIndex(@, n, st.ins[n].after),
                                                 st.ins[n].statement),
                            !.ins[n] = NoIns]
                    ELSE st
          IN IF n \in del
             THEN RemoveElem([s1 EXCEPT !.rep[n] = NoEntry], e, ty)
             ELSE s1

\* entering a node pushes its non-null children, in order, above its own
\* leave entry
EnterNode(st, e) ==
  LET k == st.kids[e.node]
      idx == SelectSeqBy([i \in 1..Len(k) |-> i], {i \in 1..Len(k) : k[i] # Null})
      children == [j \in 1..Len(idx) |-> Elem(k[idx[j]], e.node, idx[j], FALSE)]
  IN [st EXCEPT !.wl = children \o <<[e EXCEPT !.leave = TRUE]>> \o @]

RECURSIVE Walk(_, _, _)
Walk(st, ty, del) ==
  IF st.wl = << >> \/ st.err THEN st
  ELSE LET e == Head(st.wl)
           rest == [st EXCEPT !.wl = Tail(@)]
       IN IF e.leave THEN Walk(LeaveNode(rest, e, ty, del), ty, del)
          ELSE Walk(EnterNode(rest, e), ty, del)

\* traverser.replace(root, {leave}) over the session state g; the result
\* root is in .root
TraverseReplace(g, root) ==
  IF root = Null
  THEN [wl |-> << >>, kids |-> g.kids, rep |-> g.rep, ins |-> g.ins,
        root |-> Null, err |-> FALSE]
  ELSE Walk([wl |-> <<Elem(root, Null, 0, FALSE)>>, kids |-> g.kids,
             rep |-> g.rep, ins |-> g.ins, root |-> root, err |-> FALSE],
            g.type, g.del)

\* util.buildParentMap: every node reachable from the roots -> its parent
BuildParentMap(roots, k) ==
  LET R == Reach(roots, k)
  IN [n \in Nodes |->
        IF \E p \in R : n \in SeqToSet(k[p])
        THEN CHOOSE p \in R : n \in SeqToSet(k[p])
        ELSE Null]

\* ------------------------------------------------- shift-scope (model)
\* shiftScope(root) + new ScopeLookup(scope): one variable per name in the
\* script scope, plus, for a function declared in a block, the block-scoped
\* variable of the same binding (Annex B.3.3), so that binding maps to two.
ParentIn(n, R, k) ==
  IF \E p \in R : n \in SeqToSet(k[p])
  THEN CHOOSE p \in R : n \in SeqToSet(k[p])
  ELSE Null

ScopeAnalysis(root, ty, nm, k) ==
  LET R == Reach(<<root>>, k)
      BI == {n \in R : ty[n] = "BindingIdentifier"}
      IE == {n \in R : ty[n] = "IdentifierExpression"}
      used == {nm[n] : n \in BI \cup IE}
      fnOf(b) == ParentIn(b, R, k)
      blockOf(b) == IF fnOf(b) = Null THEN Null ELSE ParentIn(fnOf(b), R, k)
      inBlock == {b \in BI : /\ fnOf(b) # Null
                             /\ ty[fnOf(b)] = "FunctionDeclaration"
                             /\ blockOf(b) # Null
                             /\ ty[blockOf(b)] = "Block"}
  IN {[name |-> x, scope |-> root,
       declarations |-> {b \in BI : nm[b] = x},
       references |-> {r \in IE : nm[r] = x}] : x \in used}
     \cup
     {[name |-> nm[b], scope |-> blockOf(b),
       declarations |-> {b}, references |-> {}] : b \in inBlock}

\* lookupTable.variableMap.get(node): the variables declared or referenced
\* at node, inner scopes first; << >> stands for undefined
RECURSIVE SetToSeq(_)
SetToSeq(S) ==
  IF S = {} THEN << >>
  ELSE LET x == CHOOSE y \in S : TRUE IN <<x>> \o SetToSeq(S \ {x})

VariableMapGet(table, root, n) ==
  LET hit == {v \in table.vars : n \in v.declarations \cup v.references}
  IN SetToSeq({v \in hit : v.scope # root}) \o SetToSeq({v \in hit : v.scope = root})

NoTable == [built |-> FALSE, vars |-> {}, root |-> Null]

\* ------------------------------------------------------ session state
\* The whole mutable state as one record, so that a handler is a function
\* from state to state and handlers compose (replace; conditionalCleanup).
\* err = "" : the call has not thrown.
Cur ==
  [type |-> type, name |-> name, kids |-> kids, alloc |-> alloc,
   nodes |-> nodes, gs |-> globalSession, auto |-> autoCleanup,
   dirty |-> dirty, rootField |-> rootField, lookupTable |-> lookupTable,
   scopeMap |-> scopeMap, scopeOwnerMap |-> scopeOwnerMap,
   parentMap |-> parentMap, rep |-> replacements, del |-> deletions,
   ins |-> insertions, nsess |-> nsess, config |-> config,
   err |-> "", count |-> 0, new |-> Null, ret |-> {}]

Apply(m) ==
  /\ type' = m.type
  /\ name' = m.name
  /\ kids' = m.kids
  /\ alloc' = m.alloc
  /\ nodes' = m.nodes
  /\ globalSession' = m.gs
  /\ autoCleanup' = m.auto
  /\ dirty' = m.dirty
  /\ rootField' = m.rootField
  /\ lookupTable' = m.lookupTable
  /\ scopeMap' = m.scopeMap
  /\ scopeOwnerMap' = m.scopeOwnerMap
  /\ parentMap' = m.parentMap
  /\ replacements' = m.rep
  /\ deletions' = m.del
  /\ insertions' = m.ins
  /\ nsess' = m.nsess
  /\ config' = m.config

Throw(m, e) == IF m.err = "" THEN [m EXCEPT !.err = e] ELSE m

\* get root(): _root, else the global session's
RootOf(m, s) == IF m.rootField[s] # Null THEN m.rootField[s] ELSE m.rootField[m.gs[s]]

\* isDirty(dirty)
isDirty(m, s, d) == [m EXCEPT !.dirty[s] = d]

\* rebuildParentMap
rebuildParentMap(m, s) ==
  [m EXCEPT !.parentMap[s] = BuildParentMap(m.nodes[s], m.kids)]

\* getLookupTable + _rebuildScopeMap
getLookupTable(m, s) ==
  IF m.lookupTable[s].built THEN m
  ELSE LET r == RootOf(m, s)
           vs == ScopeAnalysis(r, m.type, m.name, m.kids)
       IN [m EXCEPT !.lookupTable[s] = [built |-> TRUE, vars |-> vs, root |-> r],
                    !.scopeMap[s] = vs,
                    !.scopeOwnerMap[s] = @ \cup {v.scope : v \in vs} \cup {r}]

\* (mutant) a subsession keeps the deletion in its own set
queueDeletionLocal(m, s, n) ==
  [isDirty(m, s, TRUE) EXCEPT !.del[s] = @ \cup {n}]

\* _queueDeletion
queueDeletion(m, s, n) ==
  LET t == IF s # m.gs[s] THEN m.gs[s] ELSE s
  IN [isDirty(m, t, TRUE) EXCEPT !.del[t] = @ \cup {n}]

\* _queueReplacement
queueReplacement(m, s, from, to) ==
  LET t == IF s # m.gs[s] THEN m.gs[s] ELSE s
  IN [isDirty(m, t, TRUE) EXCEPT !.rep[t][from] = to]

\* cleanup: this.nodes.map(node => traverser.replace(node, {leave})), then
\* the caches and the dirty flag (merge is cleanup past its two guards)
RECURSIVE TraverseAll(_, _, _)
TraverseAll(g, roots, acc) ==
  IF roots = << >> \/ acc.err THEN acc
  ELSE LET st == TraverseReplace([g EXCEPT !.kids = acc.kids, !.rep = acc.rep,
                                           !.ins = acc.ins], Head(roots))
       IN TraverseAll(g, Tail(roots),
                      [kids |-> st.kids, rep |-> st.rep, ins |-> st.ins,
                       err |-> st.err, result |-> acc.result \o <<st.root>>])

merge(m, t) ==
  LET g == [type |-> m.type, kids |-> m.kids, rep |-> m.rep[t],
            ins |-> m.ins[t], del |-> m.del[t]]
      out == TraverseAll(g, m.nodes[t],
                         [kids |-> m.kids, rep |-> m.rep[t], ins |-> m.ins[t],
                          err |-> FALSE, result |-> << >>])
      walked == [m EXCEPT !.kids = out.kids, !.rep[t] = out.rep, !.ins[t] = out.ins]
  IN IF out.err THEN Throw(walked, "TypeError")
     ELSE [isDirty(rebuildParentMap([walked EXCEPT !.lookupTable[t] = NoTable], t),
                   t, FALSE)
             EXCEPT !.nodes[t] = out.result]

\* (mutant) the merge runs whether or not the session is dirty
cleanupAlways(m, s) ==
  IF m.err # "" THEN m ELSE merge(m, IF s # m.gs[s] THEN m.gs[s] ELSE s)

cleanup(m, s) ==
  LET t == IF s # m.gs[s] THEN m.gs[s] ELSE s
  IN IF m.err # "" THEN m
     ELSE IF ~m.dirty[t] THEN m
     ELSE merge(m, t)

\* conditionalCleanup
conditionalCleanup(m, s) ==
  IF m.err # "" THEN m
  ELSE IF m.auto[s] THEN cleanup(m, s) ELSE m

\* ------------------------------------------------ nodes made by a call
\* A fresh node (the parser's or copy()'s). With the pool used up the call
\* is outside the model's bound: err = "bound" disables the action.
AllocLeaf(m, t, nmv) ==
  IF m.err # "" THEN m
  ELSE IF m.alloc >= MaxFresh THEN Throw(m, "bound")
  ELSE LET id == NumBase + m.alloc + 1
       IN [m EXCEPT !.type[id] = t, !.name[id] = nmv, !.kids[id] = << >>,
                    !.alloc = @ + 1, !.new = id]

\* parseScript(text).statements[0] for the two source texts of the model:
\* "x" is the expression statement x; "debugger" is a debugger statement
StatementType(text) ==
  IF text = "x" THEN "ExpressionStatement" ELSE "DebuggerStatement"

\* a copy of the statement the text parses to
AllocStatement(m, text) ==
  IF StatementType(text) = "ExpressionStatement"
  THEN LET m1 == AllocLeaf(m, "IdentifierExpression", "x")
           m2 == AllocLeaf(m1, "ExpressionStatement", "")
       IN IF m2.err # "" THEN m2 ELSE [m2 EXCEPT !.kids[m2.new] = <<m1.new>>]
  ELSE AllocLeaf(m, "DebuggerStatement", "")

\* a copy of the expression of the expression statement x
AllocExpression(m) == AllocLeaf(m, "IdentifierExpression", "x")

\* util.findNodes(this.nodes, selectorOrNode): a selector matches within the
\* subtrees of the session's nodes, in document order; a node is taken as it
\* is. The selectors of the model: [type=T], and [type=/Expression/], which
\* matches expression statements and identifier expressions alike.
Sel(k, n, t) == [k |-> k, n |-> n, t |-> t]
SelNode(n) == Sel("node", n, "")
SelType(t) == Sel("type", Null, t)

Matches(t, ty) ==
  IF t = "/Expression/"
  THEN ty \in {"ExpressionStatement", "IdentifierExpression"}
  ELSE ty = t

findNodes(m, s, sel) ==
  IF sel.k = "node" THEN <<sel.n>>
  ELSE LET all == PreOrderSeq(m.nodes[s], m.kids)
       IN SelectSeqBy(all, {n \in Nodes : Matches(sel.t, m.type[n])})

\* ------------------------------------------------------------- delete
RECURSIVE QueueDeletions(_, _, _)
QueueDeletions(m, s, ns) ==
  IF ns = << >> THEN m
  ELSE QueueDeletions(queueDeletion(m, s, Head(ns)), s, Tail(ns))

delete(m, s, sel) ==
  conditionalCleanup(QueueDeletions(m, s, findNodes(m, s, sel)), s)

\* ------------------------------------------------------------ replace
Rep(k, v) == [k |-> k, v |-> v]

\* the replacement value for one node: .new holds it, .err the throw
Replacement(m, node, r) ==
  LET stmt == isStatementType(m.type[node])
  IN IF r.k = "fn" /\ r.v = "promise" THEN Throw(m, "async-misuse")
     ELSE IF r.k = "fn" /\ r.v = "invalid" THEN Throw(m, "invalid-replacement")
     ELSE IF r.k = "fn" /\ r.v = "same" THEN [m EXCEPT !.new = node]
     ELSE IF r.k = "fn" /\ r.v = "node" THEN AllocLeaf(m, "DebuggerStatement", "")
     ELSE IF r.k = "fntext"
     THEN (IF stmt THEN AllocStatement(m, r.v)
           ELSE IF StatementType(r.v) = "ExpressionStatement" THEN AllocExpression(m)
           ELSE Throw(m, "invalid-replacement"))
     ELSE IF r.k = "node" THEN AllocLeaf(m, "DebuggerStatement", "")
     ELSE IF stmt THEN AllocStatement(m, r.v)
     ELSE IF StatementType(r.v) = "ExpressionStatement" THEN AllocExpression(m)
     ELSE [m EXCEPT !.new = Null]

replaceOne(m, s, node, r) ==
  LET m1 == Replacement(m, node, r)
  IN IF m.err # "" THEN m
     ELSE IF m1.err # "" THEN m1
     ELSE IF m1.new # node
     THEN [queueReplacement(m1, s, node, m1.new) EXCEPT !.count = @ + 1]
     ELSE m1

RECURSIVE ReplaceEach(_, _, _, _)
ReplaceEach(m, s, ns, r) ==
  IF ns = << >> THEN m
  ELSE ReplaceEach(replaceOne(m, s, Head(ns), r), s, Tail(ns), r)

replace(m, s, sel, r) ==
  conditionalCleanup(ReplaceEach(m, s, findNodes(m, s, sel), r), s)

\* one pass of replaceRecursive: replace, then cleanup; .count is the number
\* of nodes the pass replaced
replaceRecursivePass(m, s, sel, r) ==
  LET m1 == replace(m, s, sel, r)
  IN IF m1.err # "" THEN m1 ELSE [cleanup(m1, s) EXCEPT !.count = m1.count]

\* ------------------------------------------------------------- insert
\* getInsertion(replacer, node): the payload is the text of a statement, or
\* an expression node given as it is
InsertionPayload(m, r) ==
  IF r.k = "text" THEN AllocStatement(m, r.v)
  ELSE AllocLeaf(m, "IdentifierExpression", "x")

insertOne(m, t, node, r, after) ==
  LET m1 == isDirty(m, t, TRUE)
      m2 == InsertionPayload(m1, r)
  IN IF m.err # "" THEN m
     ELSE IF ~isStatementType(m.type[node]) THEN Throw(m, "insert-target")
     ELSE IF m2.err # "" THEN m2
     ELSE IF ~isStatementType(m2.type[m2.new]) THEN Throw(m2, "insert-payload")
     ELSE [m2 EXCEPT !.ins[t][node] = [after |-> after, statement |-> m2.new]]

RECURSIVE InsertEach(_, _, _, _, _)
InsertEach(m, t, ns, r, after) ==
  IF ns = << >> THEN m
  ELSE InsertEach(insertOne(m, t, Head(ns), r, after), t, Tail(ns), r, after)

insert(m, s, sel, r, after) ==
  LET t == IF s # m.gs[s] THEN m.gs[s] ELSE s
  IN conditionalCleanup(InsertEach(m, t, findNodes(m, t, sel), r, after), t)

\* prepend / append
prepend(m, s, sel, r) == insert(m, m.gs[s], sel, r, FALSE)
append(m, s, sel, r) == insert(m, m.gs[s], sel, r, TRUE)

\* ----------------------------------------------------------- generate
generate(m, s) == IF m.dirty[s] THEN Throw(m, "dirty-print") ELSE m

\* --------------------------------------------------------- subSession
\* new RefactorSession(findNodes(this.nodes, sel), {parentSession: this})
subSession(m, s, sel) ==
  LET c == m.nsess + 1
      m1 == [m EXCEPT !.nsess = c,
                      !.gs[c] = m.gs[s],
                      !.nodes[c] = findNodes(m, s, sel),
                      !.new = c]
  IN getLookupTable(rebuildParentMap(m1, c), c)

\* ------------------------------------------------------------- rename
\* renameInPlace(lookup, newName)
renameInPlace(m, v, newName) ==
  IF newName = "" THEN m
  ELSE [m EXCEPT !.name = [x \in Nodes |->
                             IF x \in v.declarations \cup v.references
                             THEN newName ELSE @[x]]]

\* the body of rename's forEach, over the table fetched before the loop
renameOne(m, table, node, newName) ==
  LET n == IF m.type[node] = "VariableDeclarator" THEN m.kids[node][1] ELSE node
      lookup == VariableMapGet(table, table.root, n)
  IN IF lookup = << >> THEN m ELSE renameInPlace(m, lookup[1], newName)

RECURSIVE RenameEach(_, _, _, _)
RenameEach(m, table, ns, newName) ==
  IF ns = << >> THEN m
  ELSE RenameEach(renameOne(m, table, Head(ns), newName), table, Tail(ns), newName)

rename(m, s, sel, newName) ==
  LET m1 == getLookupTable(m, s)
  IN RenameEach(m1, m1.lookupTable[s], findNodes(m1, s, sel), newName)

\* ------------------------------------------------------------- lookups
\* the key lookupVariable asks the variable map for: the node's binding,
\* the node, the node's name; NoEntry for the types outside the switch
LookupKey(m, node) ==
  LET t == m.type[node]
  IN IF t \in {"AssignmentExpression", "VariableDeclarator"} THEN m.kids[node][1]
     ELSE IF t \in {"AssignmentTargetIdentifier", "IdentifierExpression",
                    "BindingIdentifier"} THEN node
     ELSE IF t \in {"ClassDeclaration", "ClassExpression", "FunctionDeclaration",
                    "FunctionExpression"} THEN m.kids[node][1]
     ELSE NoEntry

\* (mutant) more than one candidate: the first one is returned
lookupVariableFirst(m, s, node) ==
  LET m1 == getLookupTable(m, s)
      table == m1.lookupTable[s]
      key == LookupKey(m1, node)
      lookup == IF key = NoEntry THEN << >> ELSE VariableMapGet(table, table.root, key)
  IN IF lookup = << >> THEN Throw(m1, "resolution")
     ELSE [m1 EXCEPT !.ret = {lookup[1]}]

lookupVariable(m, s, node) ==
  LET m1 == getLookupTable(m, s)
      table == m1.lookupTable[s]
      key == LookupKey(m1, node)
      lookup == IF key = NoEntry THEN << >> ELSE VariableMapGet(table, table.root, key)
  IN IF lookup = << >> THEN Throw(m1, "resolution")
     ELSE IF Len(lookup) > 1 THEN Throw(m1, "ambiguity")
     ELSE [m1 EXCEPT !.ret = {lookup[1]}]

\* lookupVariableByName: the first variable of every entry of the variable
\* map whose name is the given one
lookupVariableByName(m, s, nm) ==
  LET m1 == getLookupTable(m, s)
      table == m1.lookupTable[s]
      keys == UNION {v.declarations \cup v.references : v \in table.vars}
      firsts == {VariableMapGet(table, table.root, k)[1] : k \in keys}
  IN [m1 EXCEPT !.ret = {v \in firsts : v.name = nm}]

\* lookupScope(node): the scope the scope map has for the node's variable
lookupScope(m, s, node) ==
  LET m1 == lookupVariable(m, s, node)
  IN IF m1.err # "" THEN m1
     ELSE [m1 EXCEPT !.ret = {v \in m1.ret : v \in m1.scopeMap[s]}]

\* getInnerScope(node): scopeOwnerMap.get(node), no table is fetched
getInnerScope(m, s, node) ==
  [m EXCEPT !.ret = IF node \in m.scopeOwnerMap[s]
                    THEN {[name |-> "", scope |-> node, declarations |-> {},
                           references |-> {}]}
                    ELSE {}]

\* findParents(node): the global session's parentMap.get(node), if any
findParents(m, s, node) ==
  LET p == m.parentMap[m.gs[s]][node]
  IN [m EXCEPT !.ret = IF p = Null THEN {}
                       ELSE {[name |-> "", scope |-> p, declarations |-> {},
                              references |-> {}]}]

\* -------------------------------------------------------- construction
\* constructor: autoCleanup = true; if (config.autoCleanup) this.autoCleanup
\* = config.autoCleanup. cfg is config.autoCleanup: "undefined", "true" or
\* "false".
ConfigValues == {"undefined", "true", "false"}
constructorAutoCleanup(cfg) == IF cfg = "true" THEN TRUE ELSE TRUE

NoSel == Sel("", Null, "")
NoRep == Rep("", "")
Call(op, s, sel, r, m) ==
  [op |-> op, s |-> s, sel |-> sel, r |-> r, err |-> m.err, count |-> m.count,
   ret |-> m.ret, prevOp |-> lastOp.op, prevS |-> lastOp.s]

AsyncIdle ==
  [phase |-> "idle", s |-> 0, nodes |-> << >>, i |-> 0, outstanding |-> {},
   queued |-> << >>, invoked |-> << >>, r |-> NoRep]

\* new RefactorSession(source, {autoCleanup: cfg}) for the program above
Init ==
  /\ type = [n \in Nodes |-> IF n <= NumBase THEN BaseType[n] ELSE "none"]
  /\ name = [n \in Nodes |-> IF n <= NumBase THEN BaseName[n] ELSE ""]
  /\ kids = [n \in Nodes |-> IF n <= NumBase THEN BaseKids[n] ELSE << >>]
  /\ alloc = 0
  /\ nsess = 0
  /\ config \in [Sessions -> ConfigValues]
  /\ \A s \in Sessions \ {0} : config[s] = "undefined"
  /\ autoCleanup = [s \in Sessions |-> constructorAutoCleanup(config[s])]
  /\ nodes = [s \in Sessions |-> IF s = 0 THEN <<1>> ELSE << >>]
  /\ rootField = [s \in Sessions |-> IF s = 0 THEN 1 ELSE Null]
  /\ globalSession = [s \in Sessions |-> 0]
  /\ dirty = [s \in Sessions |-> FALSE]
  /\ replacements = [s \in Sessions |-> [n \in Nodes |-> NoEntry]]
  /\ insertions = [s \in Sessions |-> [n \in Nodes |-> NoIns]]
  /\ deletions = [s \in Sessions |-> {}]
  /\ parentMap = [s \in Sessions |->
                    IF s = 0 THEN BuildParentMap(<<1>>, kids)
                    ELSE [n \in Nodes |-> Null]]
  /\ lookupTable = [s \in Sessions |->
                      IF s = 0
                      THEN [built |-> TRUE, root |-> 1,
                            vars |-> ScopeAnalysis(1, type, name, kids)]
                      ELSE NoTable]
  /\ scopeMap = [s \in Sessions |-> lookupTable[s].vars]
  /\ scopeOwnerMap = [s \in Sessions |-> {v.scope : v \in lookupTable[s].vars}
                                          \cup (IF s = 0 THEN {1} ELSE {})]
  /\ lastOp = [op |-> "new", s |-> 0, sel |-> NoSel, r |-> NoRep, err |-> "",
               count |-> 0, ret |-> {}, prevOp |-> "", prevS |-> 0]
  /\ ops = 0
  /\ async = AsyncIdle

Live == 0..nsess

\* one call of the caller: the handler's result becomes the state; a call
\* that throws leaves what it had done before the throw
Step(op, s, sel, r, m) ==
  /\ s \in Live
  /\ m.err # "bound"
  /\ Apply(m)
  /\ lastOp' = Call(op, s, sel, r, m)
  /\ ops' = ops + 1

QueueDeletion(s, n) ==
  /\ Step("_queueDeletion", s, SelNode(n), NoRep, queueDeletion(Cur, s, n))
  /\ UNCHANGED async

\* _queueReplacement(from, to) with to a new debugger statement
QueueReplacement(s, n) ==
  /\ LET m1 == AllocLeaf(Cur, "DebuggerStatement", "")
     IN Step("_queueReplacement", s, SelNode(n), NoRep,
             IF m1.err # "" THEN m1 ELSE queueReplacement(m1, s, n, m1.new))
  /\ UNCHANGED async

Delete(s, sel) ==
  /\ Step("delete", s, sel, NoRep, delete(Cur, s, sel))
  /\ UNCHANGED async

Replace(s, sel, r) ==
  /\ Step("replace", s, sel, r, replace(Cur, s, sel, r))
  /\ UNCHANGED async

PrependTo(s, sel, r) ==
  /\ Step("prepend", s, sel, r, prepend(Cur, s, sel, r))
  /\ UNCHANGED async

AppendTo(s, sel, r) ==
  /\ Step("append", s, sel, r, append(Cur, s, sel, r))
  /\ UNCHANGED async

Cleanup(s) ==
  /\ Step("cleanup", s, NoSel, NoRep, cleanup(Cur, s))
  /\ UNCHANGED async

Generate(s) ==
  /\ Step("generate", s, NoSel, NoRep, generate(Cur, s))
  /\ UNCHANGED async

SubSession(s, sel) ==
  /\ nsess < MaxSubs
  /\ Step("subSession", s, sel, NoRep, subSession(Cur, s, sel))
  /\ UNCHANGED async

\* rename(node, newName); the call record keeps the name the node had
Rename(s, n, newName) ==
  /\ Step("rename", s, SelNode(n), Rep(name[n], newName),
          rename(Cur, s, SelNode(n), newName))
  /\ UNCHANGED async

LookupVariable(s, n) ==
  /\ Step("lookupVariable", s, SelNode(n), NoRep, lookupVariable(Cur, s, n))
  /\ UNCHANGED async

LookupVariableByName(s, nm) ==
  /\ Step("lookupVariableByName", s, NoSel, Rep("name", nm),
          lookupVariableByName(Cur, s, nm))
  /\ UNCHANGED async

LookupScope(s, n) ==
  /\ Step("lookupScope", s, SelNode(n), NoRep, lookupScope(Cur, s, n))
  /\ UNCHANGED async

GetInnerScope(s, n) ==
  /\ Step("getInnerScope", s, SelNode(n), NoRep, getInnerScope(Cur, s, n))
  /\ UNCHANGED async

FindParents(s, n) ==
  /\ Step("findParents", s, SelNode(n), NoRep, findParents(Cur, s, n))
  /\ UNCHANGED async

\* replaceRecursive is in its recursion: the last pass replaced something
Recursing == lastOp.op = "replaceRecursive" /\ lastOp.err = "" /\ lastOp.count > 0

\* replaceRecursive(selector, replacer): the first pass
ReplaceRecursive(s, sel, r) ==
  /\ ~Recursing
  /\ Step("replaceRecursive", s, sel, r, replaceRecursivePass(Cur, s, sel, r))
  /\ UNCHANGED async

\* if (nodesReplaced > 0) this.replaceRecursive(selectorOrNode, replacer)
ReplaceRecursiveAgain ==
  /\ Recursing
  /\ LET m == replaceRecursivePass(Cur, lastOp.s, lastOp.sel, lastOp.r)
     IN /\ m.err # "bound"
        /\ Apply(m)
        /\ lastOp' = Call("replaceRecursive", lastOp.s, lastOp.sel, lastOp.r, m)
  /\ UNCHANGED <<ops, async>>

\* ------------------------------------------------------- replaceAsync
\* (mutant) a fan-out: every iterator may start at once
fanOutReady(a) == TRUE

\* waterfallMap starts the iterator of the next element in the then() of
\* the previous one: only when no invocation is outstanding
waterfallReady(a) == a.outstanding = {}

\* replaceAsync(selector, replacer) up to its first suspension: the selection
\* is taken, a replacer that is no function rejects the call
ReplaceAsyncStart(s, sel, r) ==
  /\ s \in Live
  /\ async.phase # "running"
  /\ ops' = ops + 1
  /\ IF r.k # "fn"
     THEN /\ lastOp' = Call("replaceAsync", s, sel, r, Throw(Cur, "invalid-replacer"))
          /\ async' = [AsyncIdle EXCEPT !.phase = "done", !.s = s, !.r = r]
     ELSE /\ lastOp' = Call("replaceAsync-start", s, sel, r, Cur)
          /\ async' = [AsyncIdle EXCEPT !.phase = "running", !.s = s, !.r = r,
                                        !.nodes = findNodes(Cur, s, sel)]
  /\ UNCHANGED <<treeVars, scopeVars, queueVars, sessVars, dirty, parentMap>>

\* the iterator of the next node begins: replacer(node) is called
ReplacerInvoke ==
  /\ async.phase = "running"
  /\ Len(async.invoked) < Len(async.nodes)
  /\ waterfallReady(async)
  /\ async' = [async EXCEPT !.invoked = Append(@, async.nodes[Len(@) + 1]),
                            !.outstanding = @ \cup {Len(async.invoked) + 1}]
  /\ UNCHANGED <<treeVars, scopeVars, queueVars, sessVars, dirty, parentMap,
                 lastOp, ops>>

\* an outstanding replacer resolves with rv and the rest of the iterator
\* runs: the replacement is queued, or the call is rejected
ReplacerResolve(rv) ==
  /\ async.phase = "running"
  /\ \E j \in async.outstanding :
       LET node == async.nodes[j]
           m1 == Replacement(Cur, node, rv)
           m2 == IF m1.err # "" THEN m1
                 ELSE IF m1.new # node
                 THEN [queueReplacement(m1, async.s, node, m1.new)
                         EXCEPT !.count = Len(async.queued) + 1]
                 ELSE m1
       IN /\ m2.err # "bound"
          /\ Apply(m2)
          /\ IF m2.err # ""
             THEN /\ lastOp' = Call("replaceAsync", async.s, lastOp.sel, async.r, m2)
                  /\ async' = [async EXCEPT !.phase = "done",
                                            !.outstanding = @ \ {j}]
             ELSE /\ lastOp' = lastOp
                  /\ async' = [async EXCEPT
                                 !.i = @ + 1, !.outstanding = @ \ {j},
                                 !.queued = IF m1.new # node THEN Append(@, node)
                                            ELSE @]
  /\ UNCHANGED ops

\* every iterator has finished: conditionalCleanup, and the count is returned
ReplaceAsyncFinish ==
  /\ async.phase = "running"
  /\ async.i = Len(async.nodes)
  /\ LET m == conditionalCleanup([Cur EXCEPT !.count = Len(async.queued)], async.s)
     IN /\ Apply(m)
        /\ lastOp' = Call("replaceAsync", async.s, lastOp.sel, async.r, m)
  /\ async' = [async EXCEPT !.phase = "done"]
  /\ UNCHANGED ops

\* ------------------------------------------------------- specification
\* the inputs of the calls
Targets == {2, 3, 4, 6, 8}
Selectors == {SelNode(n) : n \in Targets} \cup {SelType("ExpressionStatement")}
Replacers == {Rep("text", "x"), Rep("text", "debugger"), Rep("fn", "invalid")}
Payloads == {Rep("text", "debugger"), Rep("node", "x")}

Next ==
  \/ \E s \in Sessions, n \in Targets : ops < MaxOps /\ QueueDeletion(s, n)
  \/ \E s \in Sessions, n \in Targets : ops < MaxOps /\ QueueReplacement(s, n)
  \/ \E s \in Sessions, sel \in Selectors : ops < MaxOps /\ Delete(s, sel)
  \/ \E s \in Sessions, sel \in Selectors, r \in Replacers :
       ops < MaxOps /\ Replace(s, sel, r)
  \/ \E s \in Sessions, sel \in Selectors, r \in Payloads :
       ops < MaxOps /\ PrependTo(s, sel, r)
  \/ \E s \in Sessions, sel \in Selectors, r \in Payloads :
       ops < MaxOps /\ AppendTo(s, sel, r)
  \/ \E s \in Sessions : ops < MaxOps /\ Cleanup(s)
  \/ \E s \in Sessions : ops < MaxOps /\ Generate(s)
  \/ \E s \in Sessions, sel \in Selectors : ops < MaxOps /\ SubSession(s, sel)

Spec == Init /\ [][Next]_vars

\* new RefactorSession(source): no config
InitDefault == Init /\ config[0] = "undefined"

\* The queue and the merge on the root session alone: insertions before and
\* after the statements of the script and of the block, deletions queued
\* beside them, and explicit commits.
Anchors == {2, 4, 8, 10}
AnchorSelectors == {SelNode(n) : n \in Anchors} \cup {SelType("/Expression/")}
MergeDeletions == {2, 4, 6, 8}
Debugger == Rep("text", "debugger")

NextMerge ==
  \/ \E sel \in AnchorSelectors : ops < MaxCalls /\ PrependTo(0, sel, Debugger)
  \/ \E sel \in AnchorSelectors : ops < MaxCalls /\ AppendTo(0, sel, Debugger)
  \/ \E n \in MergeDeletions : ops < MaxCalls /\ QueueDeletion(0, n)
  \/ ops < MaxCalls /\ Cleanup(0)

SpecMerge == InitDefault /\ [][NextMerge]_vars

\* Sessions and subsessions: every mutating call through every session.
SubTargets == {6}
SubSelectors == {SelNode(2), SelType("VariableDeclarator")}

NextSubsession ==
  \/ \E s \in Sessions, sel \in SubSelectors : ops < MaxCalls /\ SubSession(s, sel)
  \/ \E s \in Sessions, n \in SubTargets : ops < MaxCalls /\ QueueDeletion(s, n)
  \/ \E s \in Sessions, n \in SubTargets : ops < MaxCalls /\ QueueReplacement(s, n)
  \/ \E s \in Sessions, sel \in SubSelectors : ops < MaxCalls /\ Delete(s, sel)
  \/ \E s \in Sessions : ops < MaxCalls /\ Replace(s, SelNode(2), Rep("text", "x"))
  \/ \E s \in Sessions : ops < MaxCalls /\ PrependTo(s, SelNode(2), Debugger)
  \/ \E s \in Sessions : ops < MaxCalls /\ Cleanup(s)

SpecSubsession == InitDefault /\ [][NextSubsession]_vars

\* The scope resolver: renames and lookups through the root session and a
\* subsession, between commits that change the tree.
RenameTargets == {3, 6, 11}
LookupTargets == {1, 3, 6, 10, 11}
LookupNames == {"a", "f", "z"}

NextScope ==
  \/ \E s \in Sessions, n \in RenameTargets, nm \in {"z", ""} :
       ops < MaxOps /\ Rename(s, n, nm)
  \/ \E s \in Sessions, n \in LookupTargets : ops < MaxOps /\ LookupVariable(s, n)
  \/ \E s \in Sessions, nm \in LookupNames :
       ops < MaxOps /\ LookupVariableByName(s, nm)
  \/ \E n \in {2, 7} : ops < MaxOps /\ Delete(0, SelNode(n))
  \/ ops < MaxOps /\ Replace(0, SelNode(3), Rep("text", "x"))
  \/ ops < MaxOps /\ SubSession(0, SelType("VariableDeclarator"))

SpecScope == Init /\ [][NextScope]_vars

\* One replaceAsync call at a time, with its suspension points; while it is
\* suspended the caller may queue a deletion or commit.
AsyncSelectors == {SelType("BindingIdentifier"), SelType("/Expression/")}
AsyncReplacers == {Rep("fn", "node"), Rep("text", "x")}
Resolutions == {Rep("fn", "node"), Rep("fn", "same"), Rep("fn", "invalid")}

NextAsync ==
  \/ \E s \in Sessions, sel \in AsyncSelectors, r \in AsyncReplacers :
       ops < MaxOps /\ ReplaceAsyncStart(s, sel, r)
  \/ ReplacerInvoke
  \/ \E rv \in Resolutions : ReplacerResolve(rv)
  \/ ReplaceAsyncFinish
  \/ ops < MaxOps /\ QueueDeletion(0, 2)
  \/ ops < MaxOps /\ Cleanup(0)
  \/ ops < MaxOps /\ SubSession(0, SelType("VariableDeclarator"))

SpecAsync == Init /\ [][NextAsync]_vars

\* The caches across commits: scope queries and parent queries through the
\* root session and a subsession, between commits that change the tree,
\* the replacement of the root among them.
CacheQueries == {3, 9, 11}

NextCache ==
  \/ ops < MaxOps /\ SubSession(0, SelType("VariableDeclarator"))
  \/ \E n \in {2, 8} : ops < MaxOps /\ Delete(0, SelNode(n))
  \/ \E n \in {1, 2} : ops < MaxOps /\ QueueReplacement(0, n)
  \/ ops < MaxOps /\ Cleanup(0)
  \/ \E s \in Sessions, n \in CacheQueries : ops < MaxOps /\ LookupVariable(s, n)
  \/ \E s \in Sessions, nm \in {"a", "f"} :
       ops < MaxOps /\ LookupVariableByName(s, nm)
  \/ \E s \in Sessions, n \in CacheQueries : ops < MaxOps /\ LookupScope(s, n)
  \/ \E s \in Sessions, n \in CacheQueries : ops < MaxOps /\ GetInnerScope(s, n)
  \/ \E s \in Sessions, n \in CacheQueries : ops < MaxOps /\ FindParents(s, n)

SpecCache == InitDefault /\ [][NextCache]_vars

\* replaceRecursive on the root session and a subsession; the call is
\* synchronous, so no other call runs between its passes.
RecursiveSelectors == {SelNode(2), SelNode(3), SelType("ExpressionStatement"),
                       SelType("/Expression/")}
RecursiveReplacers == {Rep("text", "x"), Rep("text", "debugger"), Rep("fn", "same")}

NextRecursive ==
  \/ \E s \in Sessions, sel \in RecursiveSelectors, r \in RecursiveReplacers :
       ops < MaxOps /\ ReplaceRecursive(s, sel, r)
  \/ ReplaceRecursiveAgain
  \/ \E n \in {2, 4} : ops < MaxOps /\ ~Recursing /\ QueueDeletion(0, n)
  \/ ops < MaxOps /\ ~Recursing /\ SubSession(0, SelType("ExpressionStatement"))

SpecRecursive == InitDefault /\ [][NextRecursive]_vars

\* ---------------------------------------------------------- the claims
\* the tree of the global session, and what is pending on a node
Tree == Reach(nodes[0], kids)
PendingOn(n) ==
  \/ replacements[0][n] # NoEntry
  \/ insertions[0][n] # NoIns
  \/ n \in deletions[0]
\* this step is an explicit commit() that ran the merge and returned
CommitStep == lastOp'.op = "cleanup" /\ lastOp'.err = "" /\ dirty[0]

\* C1 (as claimed): a node of the tree queued for both replacement and
\* deletion is, after commit(), absent from the tree, and its replacement is
\* not in the tree either.
C1_DeletionPrecedence ==
  [][\A n \in Nodes :
       (CommitStep /\ n \in Tree /\ replacements[0][n] # NoEntry
          /\ n \in deletions[0])
       => (n \notin Reach(nodes'[0], kids')
           /\ replacements[0][n] \notin Reach(nodes'[0], kids'))]_vars

\* C2 (as claimed): generate() on the session a mutation was just queued
\* through fails with the dirty-print error, for the global session and for
\* a subsession alike; generate() right after a commit succeeds.
C2_DirtyGuardedPrinting ==
  [][(lastOp'.op = "generate")
       => /\ (lastOp.op \in {"_queueDeletion", "_queueReplacement"}
                /\ lastOp.err = "" /\ lastOp'.s = lastOp.s)
             => lastOp'.err = "dirty-print"
          /\ (lastOp.op = "cleanup" /\ lastOp.err = "")
             => lastOp'.err = ""]_vars

\* C4 (as claimed): after a delete/replace/prepend/append that queued a
\* mutation, a session constructed with autoCleanup: false is dirty and its
\* tree is unchanged; any other session is clean.
QueuingCall(c) ==
  /\ c.err = ""
  /\ \/ c.op \in {"delete", "prepend", "append"} /\ c.sel.k = "node"
     \/ c.op = "replace" /\ c.count > 0
C4_AutoCleanupGating ==
  [][QueuingCall(lastOp')
       => IF config[lastOp'.s] = "false"
          THEN kids' = kids /\ nodes' = nodes /\ dirty'[globalSession[lastOp'.s]]
          ELSE ~dirty'[globalSession[lastOp'.s]]]_vars

\* C8 (as claimed): when all declarators of a variable declaration statement
\* of the tree are queued for deletion and a step removes them all, that
\* step also removes the statement from the tree.
C8_EmptyDeclaratorCleanup ==
  [][\A v \in Nodes :
       (/\ v \in Tree
        /\ type[v] = "VariableDeclarationStatement"
        /\ kids[v][1] # Null
        /\ type[kids[v][1]] = "VariableDeclaration"
        /\ kids[kids[v][1]] # << >>
        /\ SeqToSet(kids[kids[v][1]]) \subseteq deletions'[0]
        /\ kids'[kids[v][1]] = << >>)
       => v \notin Reach(nodes'[0], kids')]_vars

\* C3: every session's globalSession is the root session and a subsession's
\* own pending maps are empty; a deletion or replacement queued through any
\* session is recorded in the root session's maps; and a commit on the root
\* session applies the mutation that was just queued through a subsession
\* (the only one pending on the tree): the deleted node leaves the tree, the
\* replaced node gives way to its replacement.
C3_Shared ==
  \A s \in Live :
    /\ globalSession[s] = 0
    /\ s # 0 => /\ deletions[s] = {}
                /\ \A n \in Nodes : /\ replacements[s][n] = NoEntry
                                    /\ insertions[s][n] = NoIns
OnlyPending(n) == \A x \in Tree \ {n} : ~PendingOn(x)
C3_Forwarded ==
  /\ (lastOp'.op \in {"_queueDeletion", "delete"} /\ lastOp'.sel.k = "node")
       => lastOp'.sel.n \in deletions'[0]
  /\ (lastOp'.op = "_queueReplacement")
       => replacements'[0][lastOp'.sel.n] # NoEntry
C3_RootCommitApplies ==
  LET n == lastOp.sel.n
      after == Reach(nodes'[0], kids')
  IN (/\ CommitStep /\ lastOp'.s = 0
      /\ lastOp.s # 0 /\ lastOp.err = ""
      /\ n \in Tree /\ OnlyPending(n))
     => /\ (lastOp.op = "_queueDeletion"
              /\ replacements[0][n] = NoEntry /\ insertions[0][n] = NoIns)
           => n \notin after
        /\ (lastOp.op = "_queueReplacement"
              /\ n \notin deletions[0] /\ insertions[0][n] = NoIns)
           => n \notin after /\ replacements[0][n] \in after
C3_SubsessionDelegation ==
  []C3_Shared /\ [][C3_Forwarded /\ C3_RootCommitApplies]_vars
\* a commit on the root session has removed the node whose deletion was
\* queued through a subsession of a subsession
C3_Witness ==
  /\ lastOp.op = "cleanup" /\ lastOp.s = 0 /\ lastOp.err = ""
  /\ lastOp.prevOp = "_queueDeletion" /\ lastOp.prevS = 2
  /\ 6 \in deletions[0] /\ 6 \notin Tree
  /\ deletions[1] = {} /\ deletions[2] = {}

\* C5: a commit with a single pending insertion, anchored at a statement of
\* a statement list, splices the new statement right after the anchor
\* (placement after) or right before it (placement before) and leaves the
\* rest of the list as it was; for [A, B, C] and anchor B that is
\* [A, B, X, C] and [A, Y, B, C]. The lists are lists of statements the
\* commit has nothing else to do with: no declaration statement of the tree
\* is already without declarators (the commit removes those).
EmptyDeclaration(n) ==
  /\ type[n] = "VariableDeclarationStatement"
  /\ kids[n][1] # Null
  /\ kids[kids[n][1]] = << >>
Spliced(L, n, x, after) ==
  \E i \in 1..Len(L) :
    /\ L[i] = n
    /\ IF after
       THEN kids'[parentMap[0][n]] = SubSeq(L, 1, i) \o <<x>> \o SubSeq(L, i + 1, Len(L))
       ELSE kids'[parentMap[0][n]] = SubSeq(L, 1, i - 1) \o <<x>> \o SubSeq(L, i, Len(L))
InList(n) ==
  /\ n \in Tree
  /\ \E p \in Tree : HasStatements(type[p]) /\ n \in SeqToSet(kids[p])
ListOf(n) == kids[CHOOSE p \in Tree : HasStatements(type[p]) /\ n \in SeqToSet(kids[p])]
C5_Committed ==
  \A n \in Nodes :
    (/\ CommitStep
     /\ InList(n) /\ \A v \in Tree : ~EmptyDeclaration(v)
     /\ insertions[0][n] # NoIns
     /\ replacements[0][n] = NoEntry /\ n \notin deletions[0]
     /\ OnlyPending(n))
    => Spliced(ListOf(n), n, insertions[0][n].statement, insertions[0][n].after)
C5_Called ==
  LET n == lastOp'.sel.n
  IN (/\ lastOp'.op \in {"prepend", "append"} /\ lastOp'.err = ""
      /\ lastOp'.sel.k = "node"
      /\ InList(n) /\ \A v \in Tree : ~EmptyDeclaration(v)
      /\ \A x \in Tree : ~PendingOn(x))
     => \E x \in Nodes :
          /\ type[x] = "none" /\ isStatementType(type'[x])
          /\ Spliced(ListOf(n), n, x, lastOp'.op = "append")
C5_InsertionOrdering == [][C5_Committed /\ C5_Called]_vars
\* [A, B, C] after Y was inserted before B and then X after B
C5_Witness ==
  /\ lastOp.op = "append" /\ lastOp.prevOp = "prepend" /\ lastOp.err = ""
  /\ lastOp.sel = SelNode(4)
  /\ kids[1] = <<2, NumBase + 1, 4, NumBase + 2, 8>>

\* C7: a commit() that follows a commit that returned, with nothing queued in
\* between, changes neither the tree, the managed nodes nor the parent index
\* and leaves every session clean.
Committing == {"cleanup", "delete", "replace", "prepend", "append"}
C7_IdempotentCommit ==
  [][(lastOp.op \in Committing /\ lastOp.err = "" /\ lastOp'.op = "cleanup")
       => /\ kids' = kids /\ type' = type /\ name' = name
          /\ nodes' = nodes
          /\ parentMap' = parentMap
          /\ lastOp'.err = ""
          /\ ~dirty[0] /\ ~dirty'[0]]_vars
\* two commits in a row, the first of which applied a deletion
C7_Witness ==
  /\ lastOp.op = "cleanup" /\ lastOp.prevOp = "cleanup"
  /\ ~dirty[0]
  /\ 2 \in deletions[0] /\ 2 \notin Tree

\* C6 (as claimed): rename sets the name of every declaration and reference
\* node of the variable of the given node, and of no other node; a lookup by
\* the old name right after the rename finds nothing.
Occurrences(n) ==
  UNION {v.declarations \cup v.references :
           v \in {w \in ScopeAnalysis(RootOf(Cur, 0), type, name, kids) :
                    n \in w.declarations \cup w.references}}
C6_Renamed ==
  LET n == IF type[lastOp'.sel.n] = "VariableDeclarator"
           THEN kids[lastOp'.sel.n][1] ELSE lastOp'.sel.n
  IN (lastOp'.op = "rename" /\ lastOp'.r.v # "" /\ n \in Tree)
     => \A x \in Nodes :
          name'[x] = IF x \in Occurrences(n) THEN lastOp'.r.v ELSE name[x]
C6_OldNameGone ==
  (/\ lastOp.op = "rename" /\ lastOp.r.v # "" /\ lastOp.r.k # lastOp.r.v
   /\ lastOp.sel.n \in Tree /\ type[lastOp.sel.n] # "VariableDeclarator"
   /\ lastOp'.op = "lookupVariableByName"
   /\ lastOp'.s = lastOp.s /\ lastOp'.r.v = lastOp.r.k)
  => lastOp'.ret = {}
C6_RenamePropagation == [][C6_Renamed /\ C6_OldNameGone]_vars

\* C10: lookupVariable throws the resolution error when the session's table
\* has no variable for the node (also for a node type that owns no name),
\* throws the ambiguity error when it has more than one, and returns the
\* variable when it has exactly one.
Candidates(s, node) ==
  LET id == IF type[node] \in {"VariableDeclarator", "FunctionDeclaration"}
            THEN kids[node][1]
            ELSE IF type[node] \in {"IdentifierExpression", "BindingIdentifier"}
            THEN node ELSE Null
  IN {v \in lookupTable[s].vars : id \in v.declarations \cup v.references}
C10_VariableResolutionErrors ==
  lastOp.op = "lookupVariable"
  => LET c == Candidates(lastOp.s, lastOp.sel.n)
     IN /\ c = {} => lastOp.err = "resolution"
        /\ Cardinality(c) > 1 => lastOp.err = "ambiguity"
        /\ Cardinality(c) = 1 => lastOp.err = "" /\ lastOp.ret = c
\* the function declared in the block: its name has two variables, and the
\* lookup threw the ambiguity error
C10_Witness ==
  /\ lastOp.op = "lookupVariable" /\ lastOp.sel.n = 10
  /\ Cardinality(Candidates(lastOp.s, 10)) = 2
  /\ lastOp.err = "ambiguity"

\* C9: replaceAsync takes the selected nodes in selection order, one at a
\* time: the replacers invoked so far are those of a prefix of the selection,
\* at most one of them is outstanding and it is the last one invoked, every
\* earlier one has resolved, and the nodes whose replacement was queued were
\* queued in selection order.
Position(n) == CHOOSE i \in 1..Len(async.nodes) : async.nodes[i] = n
C9_SequentialAsyncReplacement ==
  /\ async.invoked = SubSeq(async.nodes, 1, Len(async.invoked))
  /\ Cardinality(async.outstanding) <= 1
  /\ async.outstanding \subseteq {Len(async.invoked)}
  /\ async.phase = "running" =>
       async.i = Len(async.invoked) - Cardinality(async.outstanding)
  /\ \A i \in 1..Len(async.queued) : async.queued[i] \in SeqToSet(async.invoked)
  /\ \A i, j \in 1..Len(async.queued) :
       i < j => Position(async.queued[i]) < Position(async.queued[j])
\* a call over two nodes has returned 2: both replacers were invoked, each
\* after the one before had resolved, and both replacements were queued
C9_Witness ==
  /\ async.phase = "done" /\ lastOp.op = "replaceAsync" /\ lastOp.err = ""
  /\ Len(async.nodes) = 2 /\ async.invoked = async.nodes
  /\ async.queued = async.nodes /\ lastOp.count = 2

\* C11 (as claimed): after a commit() the pending maps of the global session
\* are empty: no replacement, no insertion and no deletion is still recorded.
C11_PendingEmptyAfterCommit ==
  [][CommitStep
       => \A n \in Nodes :
            /\ replacements'[0][n] = NoEntry
            /\ insertions'[0][n] = NoIns
            /\ n \notin deletions'[0]]_vars

\* C12 (as claimed): every scope query of every session is answered from a
\* table built over the tree as it is after the last commit: the table the
\* session answers lookupVariable, lookupVariableByName and lookupScope from
\* is the analysis of the current root, and getInnerScope knows exactly the
\* nodes that own a scope in it.
FreshTable == ScopeAnalysis(nodes[0][1], type, name, kids)
C12_ScopeCacheInvalidation ==
  (lastOp.err # "bound" /\ nodes[0][1] # Null)
  => /\ lastOp.op \in {"lookupVariable", "lookupVariableByName", "lookupScope"}
        => lookupTable[lastOp.s].vars = FreshTable
     /\ lastOp.op = "getInnerScope"
        => (lastOp.ret # {}
            <=> lastOp.sel.n \in {v.scope : v \in FreshTable} \cup {nodes[0][1]})

\* C13 (as claimed): after a commit the parent index of the global session is
\* the one built from the managed roots as they are after the commit.
C13_ParentIndexFreshness ==
  [][(lastOp'.op \in Committing /\ lastOp'.err = ""
        /\ Null \notin SeqToSet(nodes'[0]))
       => parentMap'[0] = BuildParentMap(nodes'[0], kids')]_vars

\* what the claims expect of a statement list: x next to the anchor n, the
\* node n exchanged for r, the node d gone
ParentOf(n) == CHOOSE p \in Tree : HasStatements(type[p]) /\ n \in SeqToSet(kids[p])
SpliceAt(L, n, x, after) ==
  LET i == CHOOSE j \in 1..Len(L) : L[j] = n
  IN IF after THEN SubSeq(L, 1, i) \o <<x>> \o SubSeq(L, i + 1, Len(L))
     ELSE SubSeq(L, 1, i - 1) \o <<x>> \o SubSeq(L, i, Len(L))
Exchanged(L, n, r) == [i \in 1..Len(L) |-> IF L[i] = n THEN r ELSE L[i]]
Without(L, d) == SelectSeqBy(L, Nodes \ {d})
InsertCall(c) == c.op \in {"prepend", "append"} /\ c.err = "" /\ c.sel.k = "node"

\* C14 (as claimed): a statement of a statement list with a pending
\* replacement, to which an insertion is added and committed, ends with the
\* replacement in its position and the new statement right before or after
\* the replacement.
C14_ReplacementAndInsertion ==
  [][LET n == lastOp'.sel.n
         r == replacements[0][n]
     IN (/\ InsertCall(lastOp')
         /\ InList(n) /\ \A v \in Tree : ~EmptyDeclaration(v)
         /\ r # NoEntry /\ r # Null /\ r \notin Tree
         /\ n \notin deletions[0] /\ insertions[0][n] = NoIns
         /\ \A x \in Tree \ {n} : ~PendingOn(x))
        => \E x \in Nodes :
             /\ type[x] = "none" /\ isStatementType(type'[x])
             /\ kids'[ParentOf(n)]
                  = SpliceAt(Exchanged(ListOf(n), n, r), r, x, lastOp'.op = "append")]_vars

\* C15 (as claimed): an insertion anchored at a statement n, committed while
\* a statement d of the same list (n itself or a sibling) is queued for
\* deletion, leaves the list with the new statement next to n's place and
\* without d.
C15_InsertionAndDeletion ==
  [][LET n == lastOp'.sel.n
     IN \A d \in Nodes :
          (/\ InsertCall(lastOp')
           /\ InList(n) /\ \A v \in Tree : ~EmptyDeclaration(v)
           /\ d \in SeqToSet(ListOf(n)) /\ d \in deletions[0]
           /\ replacements[0][d] = NoEntry /\ insertions[0][d] = NoIns
           /\ \A x \in Tree \ {d} : ~PendingOn(x))
          => \E x \in Nodes :
               /\ type[x] = "none" /\ isStatementType(type'[x])
               /\ kids'[ParentOf(n)]
                    = Without(SpliceAt(ListOf(n), n, x, lastOp'.op = "append"), d)]_vars

\* C16 (as claimed): replace() of an expression-position node by a literal
\* text that is not a single expression throws the invalid-replacement error
\* and queues nothing; and no entry of the replacements map is ever null.
C16_InvalidReplacementRejected ==
  [][/\ (/\ lastOp'.op = "replace" /\ lastOp'.sel.k = "node"
         /\ lastOp'.sel.n \in Tree /\ ~isStatementType(type[lastOp'.sel.n])
         /\ lastOp'.r.k = "text"
         /\ StatementType(lastOp'.r.v) # "ExpressionStatement")
        => (/\ lastOp'.err = "invalid-replacement"
            /\ replacements' = replacements
            /\ kids' = kids)
     /\ \A n \in Nodes : replacements'[0][n] # Null]_vars

\* C17 (as claimed): a prepend/append that throws because a target is no
\* statement or the payload is no statement has added no insertion and has
\* left the dirty flag as it was.
C17_RejectedInsertionUnchanged ==
  [][(lastOp'.op \in {"prepend", "append"}
        /\ lastOp'.err \in {"insert-target", "insert-payload"})
       => insertions' = insertions /\ dirty' = dirty]_vars

\* C18 (as claimed): a delete, replace, prepend or append through a
\* subsession, with a selector that matches no node under the subsession's
\* managed nodes, on a session with nothing pending, returns having queued
\* nothing and changed nothing.
C18_SubsessionSelectorScoping ==
  [][LET s == lastOp'.s
     IN (/\ lastOp'.op \in {"delete", "replace", "prepend", "append"}
         /\ lastOp'.err = ""
         /\ s # 0 /\ lastOp'.sel.k = "type"
         /\ \A n \in Reach(nodes[s], kids) : ~Matches(lastOp'.sel.t, type[n])
         /\ ~dirty[0])
        => /\ kids' = kids
           /\ <<replacements, deletions, insertions>>'
                = <<replacements, deletions, insertions>>
           /\ dirty' = dirty]_vars

\* C19 (as claimed): replaceRecursive ends with the first pass that replaces
\* nothing and leaves the session clean; and a pass that starts with no node
\* of the selection in the tree (no node under the session's managed nodes
\* matches the selector; the explicit node has been replaced) replaces
\* nothing, so that the recursion ends with it.
NoneSelected(s, sel) ==
  IF sel.k = "node" THEN sel.n \notin Tree
  ELSE \A n \in Reach(nodes[s], kids) : ~Matches(sel.t, type[n])
C19_RecursiveTermination ==
  [][(lastOp'.op = "replaceRecursive" /\ lastOp'.err = "")
       => /\ lastOp'.count = 0 => ~dirty'[0]
          /\ NoneSelected(lastOp'.s, lastOp'.sel) => lastOp'.count = 0]_vars

====
